---- MODULE Spec2Model ----
(***************************************************************************)
(* Model of go-test-pg (src/database.go): the Pgpool template-database     *)
(* lifecycle.  Goroutines (one per test) call WithEmpty / WithSQLs /       *)
(* WithFixtures on one shared Pgpool; the PostgreSQL server is modelled by *)
(* the set of databases it holds.  Every database statement may fail, and  *)
(* every administrative connection may fail to open or to close.           *)
(***************************************************************************)
EXTENDS Integers, Sequences, FiniteSets, TLC

\* ---------------------------------------------------------------- bounds
NumTests == 2          \* goroutines (tests) using the pool concurrently
NumSuffixes == 2       \* distinct values p.rnd.Int31() can return
MaxStmts == 2          \* statements passed to WithSQLs / WithFixtures
MaxConns == 1          \* connections a test borrows from its pool at once
MaxTeardowns == 2      \* invocations of one teardown closure
MaxContent == 19       \* schema file contents are numbered 0..MaxContent
DigestValues == 16     \* distinct digests of the scaled-down md5

Tests == 1..NumTests
Suffixes == {ToString(i) : i \in 1..NumSuffixes}

\* ------------------------------------------------------- values and names
Nil == "nil"                              \* a nil error
EmptyName == << >>                        \* the empty string ""
ErrSchemaFileEmpty == "SchemaFile is empty"
ErrReadFile == "read schema file"
ErrConnect == "connect"
ErrExec == "exec"
ErrClose == "close"

\* database.go:237-240  the base name, "dbtestpg" unless BaseName is set
baseNameOf(b) == IF b = "" THEN "dbtestpg" ELSE b

\* the contents a schema file can have, and the BaseName settings
Contents == 0..MaxContent
BaseNames == {"", "myapp"}

\* database.go:235  md5.Sum(schemaSql): a digest of fixed size whatever the
\* length of the content (16 bytes in the source).  The model keeps the
\* fixed size and scales it to one byte of DigestValues values, so that
\* contents outnumber digests as they do for md5
md5Sum(sql) == << sql % DigestValues >>

\* database.go:236  hex.EncodeToString: two lower-case hexadecimal digits
\* per byte, high nibble first
hextable == << "0", "1", "2", "3", "4", "5", "6", "7",
               "8", "9", "a", "b", "c", "d", "e", "f" >>

RECURSIVE hexEncode(_)
hexEncode(bytes) ==
  IF bytes = << >> THEN ""
  ELSE hextable[(Head(bytes) \div 16) + 1] \o hextable[(Head(bytes) % 16) + 1]
         \o hexEncode(Tail(bytes))

\* templateName that leaves the digest out of the name
templateName_BaseOnly(b, sql) == << baseNameOf(b), "" >>

\* database.go:235-241  the template identity
\* fmt.Sprintf("%v_%v", baseName, schemaHex), as the sequence of its parts
templateName(b, sql) == << baseNameOf(b), hexEncode(md5Sum(sql)) >>

\* the pool of the lifecycle model: BaseName unset, one schema file
PoolBaseName == ""
PoolSchemaSql == 5
schemaHex == hexEncode(md5Sum(PoolSchemaSql))
TmplName == templateName(PoolBaseName, PoolSchemaSql)

\* the createTemplateDB calls whose names are compared
Runs == 1..2

\* database.go:116  fmt.Sprintf("%v_%v", tmpl, p.rnd.Int31())
rndName(t, s) == Append(t, s)

DbNames == {TmplName} \cup {rndName(t, s) : t \in {EmptyName, TmplName}, s \in Suffixes}

\* a database of the server: absent, or present with the schema applied or
\* not, and the template it was copied from
NoDb == [exists |-> FALSE, schema |-> FALSE, from |-> EmptyName]
NewDb(sch, frm) == [exists |-> TRUE, schema |-> sch, from |-> frm]

NoFrame == [dbName |-> EmptyName, op |-> "none", arg |-> EmptyName,
            arg2 |-> EmptyName, ret |-> "none"]
NoMsg == [kind |-> "none", n |-> 0, db |-> EmptyName, err |-> Nil]

VARIABLES
  Skip,        \* Pgpool.Skip
  SchemaFile,  \* Pgpool.SchemaFile ("" or a file name)
  BaseName,    \* Pgpool.BaseName
  schemaSql,   \* createTemplateDB: content read from the schema file, per run
  ctName,      \* createTemplateDB: local tmpl computed from it, per run
  tmpl,        \* Pgpool.tmpl
  err,         \* Pgpool.err
  rnd,         \* Pgpool.rnd: 0 is nil, n the n-th generator stored
  mWriter,     \* Pgpool.m: the goroutine holding the exclusive lock, or 0
  mReaders,    \* Pgpool.m: the goroutines holding the shared lock
  db,          \* the server: database name -> database
  pc,          \* position of each goroutine
  lerr,        \* getTmpl: local err
  ltmpl,       \* getTmpl: local tmpl
  ctRet,       \* createTemplateDB: returned <<name, error>>
  ctErr,       \* createTemplateDB: err of the schema step, kept over dropDB
  dbExists,    \* createTemplateDB: local dbExists
  rtmpl,       \* createRndDB: local tmpl
  dbName,      \* createRndDB / WithEmpty: dbName
  cf,          \* withNewConnection: arguments and return position
  wErr,        \* withNewConnection: named result err
  conn,        \* withNewConnection: the administrative connection is open
  pool,        \* the pgxpool handle: "none", "open", "closed"
  acquired,    \* pool.Stat().AcquiredConns()
  idx,         \* WithSQLs / WithFixtures: loop index i
  execLog,     \* statements executed on the clone, in order
  tdRet,       \* teardown closure: position it returns to
  tdObs,       \* teardown closure: local acquiredConns
  tdCalls,     \* invocations of the teardown closure so far
  returned,    \* the acquisition returned a handle to the test
  result,      \* outcome of the test: "run", "failed", "skipped"
  msg,         \* last failure reported through testing.TB
  hist         \* history: what has been done so far

vars == << Skip, SchemaFile, BaseName, schemaSql, ctName, tmpl, err, rnd, mWriter, mReaders, db, pc,
           lerr, ltmpl, ctRet, ctErr, dbExists, rtmpl, dbName, cf, wErr,
           conn, pool, acquired, idx, execLog, tdRet, tdObs, tdCalls,
           returned, result, msg, hist >>

cfgVars == << Skip, SchemaFile, BaseName, schemaSql, ctName >>
lockVars == << mWriter, mReaders >>
poolVars == << tmpl, err, rnd >>
tmplLocals == << lerr, ltmpl, ctRet, ctErr, dbExists >>
wncVars == << cf, wErr, conn >>
cloneVars == << rtmpl, dbName, pool, acquired >>
fxVars == << idx, execLog >>
tdVars == << tdRet, tdObs, tdCalls >>
testVars == << returned, result, msg >>

NoHist == [ nCreateTemplateDB |-> 0,   \* calls of createTemplateDB
            nExists |-> 0,             \* existence checks issued
            gotTmpl |-> {},            \* names getTmpl has returned
            ct |-> "none",             \* the running createTemplateDB:
                                       \* "created" the template, "dropping"
            made |-> [g \in Tests |-> NoDb],  \* the clone each test created
            tdDropped |-> {},          \* tests whose teardown has dropped
            owner |-> [n \in DbNames |-> 0] ]  \* the test whose CREATE made
                                       \* the clone now held under a name

\* the pool, the server and the tests before any call
InitPool ==
  /\ Skip \in BOOLEAN
  /\ SchemaFile \in {"", "schema.sql"}
  /\ tmpl = EmptyName /\ err = Nil /\ rnd = 0
  /\ mWriter = 0 /\ mReaders = {}
  /\ \E pre \in BOOLEAN :
       db = [n \in DbNames |->
               IF pre /\ n = TmplName THEN NewDb(TRUE, EmptyName) ELSE NoDb]
  /\ pc = [g \in Tests |-> "idle"]
  /\ lerr = [g \in Tests |-> Nil]
  /\ ltmpl = [g \in Tests |-> EmptyName]
  /\ ctRet = [g \in Tests |-> << EmptyName, Nil >>]
  /\ ctErr = [g \in Tests |-> Nil]
  /\ dbExists = [g \in Tests |-> FALSE]
  /\ rtmpl = [g \in Tests |-> EmptyName]
  /\ dbName = [g \in Tests |-> EmptyName]
  /\ cf = [g \in Tests |-> NoFrame]
  /\ wErr = [g \in Tests |-> Nil]
  /\ conn = [g \in Tests |-> FALSE]
  /\ pool = [g \in Tests |-> "none"]
  /\ acquired = [g \in Tests |-> 0]
  /\ idx = [g \in Tests |-> 0]
  /\ execLog = [g \in Tests |-> << >>]
  /\ tdRet = [g \in Tests |-> "none"]
  /\ tdObs = [g \in Tests |-> 0]
  /\ tdCalls = [g \in Tests |-> 0]
  /\ returned = [g \in Tests |-> FALSE]
  /\ result = [g \in Tests |-> "run"]
  /\ msg = [g \in Tests |-> NoMsg]
  /\ hist = NoHist

Init ==
  /\ InitPool
  /\ BaseName = PoolBaseName
  /\ schemaSql = [r \in Runs |-> PoolSchemaSql]
  /\ ctName = [r \in Runs |-> EmptyName]

\* testing.TB: t.Fatal / t.Fatalf / t.Errorf fail the test with a message
Fatal(g, m) ==
  /\ result' = [result EXCEPT ![g] = "failed"]
  /\ msg' = [msg EXCEPT ![g] = m]

\* call of withNewConnection(target, fn) whose caller continues at ret
Call(g, target, op, a, a2, ret) ==
  /\ cf' = [cf EXCEPT ![g] = [dbName |-> target, op |-> op, arg |-> a,
                              arg2 |-> a2, ret |-> ret]]
  /\ wErr' = [wErr EXCEPT ![g] = Nil]
  /\ pc' = [pc EXCEPT ![g] = "wnc_connect"]
  /\ UNCHANGED conn

\* the caller has consumed the result of withNewConnection
Ret(g) ==
  /\ cf' = [cf EXCEPT ![g] = NoFrame]
  /\ wErr' = [wErr EXCEPT ![g] = Nil]
  /\ UNCHANGED conn

\* the goroutine of the test ends: its locals are gone
Exit(g) ==
  /\ pc' = [pc EXCEPT ![g] = "done"]
  /\ rtmpl' = [rtmpl EXCEPT ![g] = EmptyName]
  /\ dbName' = [dbName EXCEPT ![g] = EmptyName]

\* ----------------------------------------------------------------- getTmpl
\* getTmpl_Skip that does not look at p.Skip
getTmpl_Skip_Ignored(g) ==
  /\ pc[g] = "idle"
  /\ pc' = [pc EXCEPT ![g] = "gt_rlock"]
  /\ UNCHANGED << cfgVars, poolVars, lockVars, db, tmplLocals, cloneVars,
                  wncVars, fxVars, tdVars, testVars, hist >>

\* database.go:82-87  a test calls WithEmpty, WithSQLs or WithFixtures, which
\* all start with createRndDB -> getTmpl; t.Skip when p.Skip is set
getTmpl_Skip(g) ==
  /\ pc[g] = "idle"
  /\ IF Skip
       THEN /\ result' = [result EXCEPT ![g] = "skipped"]
            /\ pc' = [pc EXCEPT ![g] = "done"]
       ELSE /\ pc' = [pc EXCEPT ![g] = "gt_rlock"]
            /\ UNCHANGED result
  /\ UNCHANGED << cfgVars, poolVars, lockVars, db, tmplLocals, cloneVars,
                  wncVars, fxVars, tdVars, returned, msg, hist >>

\* database.go:89  p.m.RLock()
getTmpl_RLock(g) ==
  /\ pc[g] = "gt_rlock"
  /\ mWriter = 0
  /\ mReaders' = mReaders \cup {g}
  /\ pc' = [pc EXCEPT ![g] = "gt_read"]
  /\ UNCHANGED << cfgVars, poolVars, mWriter, db, tmplLocals, cloneVars,
                  wncVars, fxVars, tdVars, testVars, hist >>

\* database.go:90-92  err := p.err; tmpl := p.tmpl; p.m.RUnlock()
getTmpl_Read(g) ==
  /\ pc[g] = "gt_read"
  /\ lerr' = [lerr EXCEPT ![g] = err]
  /\ ltmpl' = [ltmpl EXCEPT ![g] = tmpl]
  /\ mReaders' = mReaders \ {g}
  /\ pc' = [pc EXCEPT ![g] = "gt_check"]
  /\ UNCHANGED << cfgVars, poolVars, mWriter, db, ctRet, ctErr, dbExists,
                  cloneVars, wncVars, fxVars, tdVars, testVars, hist >>

\* database.go:94-100  the fast path: cached error, cached name, or neither
getTmpl_Check(g) ==
  /\ pc[g] = "gt_check"
  /\ IF lerr[g] # Nil
       THEN /\ Fatal(g, [kind |-> "tmpl", n |-> 0, db |-> EmptyName,
                         err |-> lerr[g]])
            /\ pc' = [pc EXCEPT ![g] = "done"]
            /\ UNCHANGED << rtmpl, hist >>
       ELSE IF ltmpl[g] # EmptyName
         THEN /\ rtmpl' = [rtmpl EXCEPT ![g] = ltmpl[g]]
              /\ hist' = [hist EXCEPT !.gotTmpl = @ \cup {ltmpl[g]}]
              /\ pc' = [pc EXCEPT ![g] = "rnd_name"]
              /\ UNCHANGED << result, msg >>
         ELSE /\ pc' = [pc EXCEPT ![g] = "gt_lock"]
              /\ UNCHANGED << result, msg, rtmpl, hist >>
  /\ lerr' = [lerr EXCEPT ![g] = Nil]
  /\ ltmpl' = [ltmpl EXCEPT ![g] = EmptyName]
  /\ UNCHANGED << cfgVars, poolVars, lockVars, db, ctRet, ctErr, dbExists,
                  dbName, pool, acquired, wncVars, fxVars, tdVars, returned >>

\* database.go:101  p.m.Lock()
getTmpl_Lock(g) ==
  /\ pc[g] = "gt_lock"
  /\ mWriter = 0 /\ mReaders = {}
  /\ mWriter' = g
  /\ pc' = [pc EXCEPT ![g] = "gt_seed"]
  /\ UNCHANGED << cfgVars, poolVars, mReaders, db, tmplLocals, cloneVars,
                  wncVars, fxVars, tdVars, testVars, hist >>

\* database.go:102  p.rnd = rand.New(...), then the call of createTemplateDB
getTmpl_Seed(g) ==
  /\ pc[g] = "gt_seed"
  /\ rnd' = rnd + 1
  /\ hist' = [hist EXCEPT !.nCreateTemplateDB = @ + 1]
  /\ pc' = [pc EXCEPT ![g] = "ct_cfg"]
  /\ UNCHANGED << cfgVars, tmpl, err, lockVars, db, tmplLocals, cloneVars,
                  wncVars, fxVars, tdVars, testVars >>

\* -------------------------------------------------------- createTemplateDB
\* createTemplateDB_Config without the check of SchemaFile
createTemplateDB_Config_NoCheck(g) ==
  /\ pc[g] = "ct_cfg"
  /\ dbExists' = [dbExists EXCEPT ![g] = FALSE]
  /\ \/ /\ ctRet' = [ctRet EXCEPT ![g] = << EmptyName, ErrReadFile >>]
        /\ pc' = [pc EXCEPT ![g] = "gt_store"]
        /\ UNCHANGED wncVars
     \/ /\ Call(g, EmptyName, "exists", TmplName, EmptyName, "ct_after1")
        /\ UNCHANGED ctRet
  /\ UNCHANGED << cfgVars, poolVars, lockVars, db, lerr, ltmpl, ctErr,
                  cloneVars, fxVars, tdVars, testVars, hist >>

\* database.go:228-244  configuration checks, template name, first call of
\* withNewConnection (existence check and CREATE DATABASE)
createTemplateDB_Config(g) ==
  /\ pc[g] = "ct_cfg"
  /\ dbExists' = [dbExists EXCEPT ![g] = FALSE]
  /\ \/ /\ SchemaFile = ""
        /\ ctRet' = [ctRet EXCEPT ![g] = << EmptyName, ErrSchemaFileEmpty >>]
        /\ pc' = [pc EXCEPT ![g] = "gt_store"]
        /\ UNCHANGED wncVars
     \/ /\ SchemaFile # ""
        /\ ctRet' = [ctRet EXCEPT ![g] = << EmptyName, ErrReadFile >>]
        /\ pc' = [pc EXCEPT ![g] = "gt_store"]
        /\ UNCHANGED wncVars
     \/ /\ SchemaFile # ""
        /\ Call(g, EmptyName, "exists", TmplName, EmptyName, "ct_after1")
        /\ UNCHANGED ctRet
  /\ UNCHANGED << cfgVars, poolVars, lockVars, db, lerr, ltmpl, ctErr,
                  cloneVars, fxVars, tdVars, testVars, hist >>

\* createTemplateDB_After1 that does not look at dbExists: the schema script
\* is applied to a template that already existed
createTemplateDB_After1_NoReuse(g) ==
  /\ pc[g] = "ct_after1"
  /\ IF wErr[g] # Nil
       THEN /\ ctRet' = [ctRet EXCEPT ![g] = << EmptyName, wErr[g] >>]
            /\ pc' = [pc EXCEPT ![g] = "gt_store"]
            /\ Ret(g)
       ELSE /\ Call(g, TmplName, "schema", TmplName, EmptyName, "ct_after2")
            /\ UNCHANGED ctRet
  /\ UNCHANGED << cfgVars, poolVars, lockVars, db, lerr, ltmpl, ctErr,
                  dbExists, cloneVars, fxVars, tdVars, testVars, hist >>

\* database.go:261-275  after the first connection: error, reuse, or the
\* second call of withNewConnection (schema script on the template)
createTemplateDB_After1(g) ==
  /\ pc[g] = "ct_after1"
  /\ IF wErr[g] # Nil
       THEN /\ ctRet' = [ctRet EXCEPT ![g] = << EmptyName, wErr[g] >>]
            /\ pc' = [pc EXCEPT ![g] = "gt_store"]
            /\ Ret(g)
       ELSE IF dbExists[g]
         THEN /\ ctRet' = [ctRet EXCEPT ![g] = << TmplName, Nil >>]
              /\ pc' = [pc EXCEPT ![g] = "gt_store"]
              /\ Ret(g)
         ELSE /\ Call(g, TmplName, "schema", TmplName, EmptyName, "ct_after2")
              /\ UNCHANGED ctRet
  /\ UNCHANGED << cfgVars, poolVars, lockVars, db, lerr, ltmpl, ctErr,
                  dbExists, cloneVars, fxVars, tdVars, testVars, hist >>

\* database.go:277-282  after the schema script: dropDB(tmpl) on error
createTemplateDB_After2(g) ==
  /\ pc[g] = "ct_after2"
  /\ IF wErr[g] # Nil
       THEN /\ ctErr' = [ctErr EXCEPT ![g] = wErr[g]]
            /\ Call(g, EmptyName, "drop", TmplName, EmptyName, "ct_afterdrop")
            /\ hist' = [hist EXCEPT !.ct = "dropping"]
            /\ UNCHANGED ctRet
       ELSE /\ ctRet' = [ctRet EXCEPT ![g] = << TmplName, Nil >>]
            /\ pc' = [pc EXCEPT ![g] = "gt_store"]
            /\ Ret(g)
            /\ UNCHANGED << ctErr, hist >>
  /\ UNCHANGED << cfgVars, poolVars, lockVars, db, lerr, ltmpl, dbExists,
                  cloneVars, fxVars, tdVars, testVars >>

\* database.go:278-279  _ = dropDB(tmpl); return "", err
createTemplateDB_AfterDrop(g) ==
  /\ pc[g] = "ct_afterdrop"
  /\ ctRet' = [ctRet EXCEPT ![g] = << EmptyName, ctErr[g] >>]
  /\ ctErr' = [ctErr EXCEPT ![g] = Nil]
  /\ pc' = [pc EXCEPT ![g] = "gt_store"]
  /\ Ret(g)
  /\ UNCHANGED << cfgVars, poolVars, lockVars, db, lerr, ltmpl,
                  dbExists, cloneVars, fxVars, tdVars, testVars, hist >>

\* getTmpl_Store that returns on an error without p.m.Unlock()
getTmpl_Store_NoUnlockOnError(g) ==
  /\ pc[g] = "gt_store"
  /\ tmpl' = ctRet[g][1]
  /\ err' = ctRet[g][2]
  /\ lerr' = [lerr EXCEPT ![g] = ctRet[g][2]]
  /\ mWriter' = IF ctRet[g][2] # Nil THEN mWriter ELSE 0
  /\ ctRet' = [ctRet EXCEPT ![g] = << EmptyName, Nil >>]
  /\ dbExists' = [dbExists EXCEPT ![g] = FALSE]
  /\ hist' = [hist EXCEPT !.ct = "none"]
  /\ pc' = [pc EXCEPT ![g] = "gt_after"]
  /\ UNCHANGED << cfgVars, rnd, mReaders, db, ltmpl, ctErr,
                  cloneVars, wncVars, fxVars, tdVars, testVars >>

\* getTmpl_Store that keeps a cached name when createTemplateDB returned none
getTmpl_Store_KeepName(g) ==
  /\ pc[g] = "gt_store"
  /\ tmpl' = IF ctRet[g][1] = EmptyName THEN tmpl ELSE ctRet[g][1]
  /\ err' = ctRet[g][2]
  /\ lerr' = [lerr EXCEPT ![g] = ctRet[g][2]]
  /\ mWriter' = 0
  /\ ctRet' = [ctRet EXCEPT ![g] = << EmptyName, Nil >>]
  /\ dbExists' = [dbExists EXCEPT ![g] = FALSE]
  /\ hist' = [hist EXCEPT !.ct = "none"]
  /\ pc' = [pc EXCEPT ![g] = "gt_after"]
  /\ UNCHANGED << cfgVars, rnd, mReaders, db, ltmpl, ctErr,
                  cloneVars, wncVars, fxVars, tdVars, testVars >>

\* database.go:103-105  p.tmpl, p.err = ...; err = p.err; p.m.Unlock()
getTmpl_Store(g) ==
  /\ pc[g] = "gt_store"
  /\ tmpl' = ctRet[g][1]
  /\ err' = ctRet[g][2]
  /\ lerr' = [lerr EXCEPT ![g] = ctRet[g][2]]
  /\ mWriter' = 0
  /\ ctRet' = [ctRet EXCEPT ![g] = << EmptyName, Nil >>]
  /\ dbExists' = [dbExists EXCEPT ![g] = FALSE]
  /\ hist' = [hist EXCEPT !.ct = "none"]
  /\ pc' = [pc EXCEPT ![g] = "gt_after"]
  /\ UNCHANGED << cfgVars, rnd, mReaders, db, ltmpl, ctErr,
                  cloneVars, wncVars, fxVars, tdVars, testVars >>

\* database.go:107-111  t.Fatalf on error, else return p.tmpl: the field is
\* read again after Unlock, racing with a later writer, so the value
\* returned is whatever p.tmpl holds when this step runs
getTmpl_After(g) ==
  /\ pc[g] = "gt_after"
  /\ IF lerr[g] # Nil
       THEN /\ Fatal(g, [kind |-> "tmpl", n |-> 0, db |-> EmptyName,
                         err |-> lerr[g]])
            /\ pc' = [pc EXCEPT ![g] = "done"]
            /\ UNCHANGED << rtmpl, hist >>
       ELSE /\ rtmpl' = [rtmpl EXCEPT ![g] = tmpl]
            /\ hist' = [hist EXCEPT !.gotTmpl = @ \cup {tmpl}]
            /\ pc' = [pc EXCEPT ![g] = "rnd_name"]
            /\ UNCHANGED << result, msg >>
  /\ lerr' = [lerr EXCEPT ![g] = Nil]
  /\ UNCHANGED << cfgVars, poolVars, lockVars, db, ltmpl, ctRet, ctErr,
                  dbExists, dbName, pool, acquired, wncVars, fxVars, tdVars,
                  returned >>

\* the server holds database n; the empty name stands for the default
\* database of the connection, or for the default template of CREATE
Present(n) == IF n = EmptyName THEN TRUE ELSE db[n].exists

\* ------------------------------------------------------- withNewConnection
\* database.go:146-162  pgx.ParseConfig and pgx.ConnectConfig: an error is
\* returned before any connection exists; connecting to a database that
\* does not exist fails
withNewConnection_Connect(g) ==
  /\ pc[g] = "wnc_connect"
  /\ \/ /\ wErr' = [wErr EXCEPT ![g] = ErrConnect]
        /\ pc' = [pc EXCEPT ![g] = cf[g].ret]
        /\ UNCHANGED conn
     \/ /\ Present(cf[g].dbName)
        /\ conn' = [conn EXCEPT ![g] = TRUE]
        /\ wErr' = [wErr EXCEPT ![g] = Nil]
        /\ pc' = [pc EXCEPT ![g] = "wnc_fn"]
  /\ UNCHANGED << cfgVars, poolVars, lockVars, db, tmplLocals, cloneVars, cf,
                  fxVars, tdVars, testVars, hist >>

\* database.go:246-259  fn of createTemplateDB's first connection:
\* SELECT EXISTS(...), and CREATE DATABASE tmpl when it does not exist
fnExists(g) ==
  /\ cf[g].op = "exists"
  /\ \/ /\ wErr' = [wErr EXCEPT ![g] = ErrExec]
        /\ hist' = [hist EXCEPT !.nExists = @ + 1]
        /\ UNCHANGED << db, dbExists >>
     \/ /\ db[cf[g].arg].exists
        /\ dbExists' = [dbExists EXCEPT ![g] = TRUE]
        /\ wErr' = [wErr EXCEPT ![g] = Nil]
        /\ hist' = [hist EXCEPT !.nExists = @ + 1]
        /\ UNCHANGED db
     \/ /\ ~db[cf[g].arg].exists
        /\ dbExists' = [dbExists EXCEPT ![g] = FALSE]
        /\ \/ /\ db' = [db EXCEPT ![cf[g].arg] = NewDb(FALSE, EmptyName)]
              /\ wErr' = [wErr EXCEPT ![g] = Nil]
              /\ hist' = [hist EXCEPT !.nExists = @ + 1, !.ct = "created"]
           \/ /\ wErr' = [wErr EXCEPT ![g] = ErrExec]
              /\ hist' = [hist EXCEPT !.nExists = @ + 1]
              /\ UNCHANGED db

\* database.go:271-274  fn of the second connection: the schema script
fnSchema(g) ==
  /\ cf[g].op = "schema"
  /\ UNCHANGED << dbExists, hist >>
  /\ \/ /\ db' = [db EXCEPT ![cf[g].arg].schema = TRUE]
        /\ wErr' = [wErr EXCEPT ![g] = Nil]
     \/ /\ wErr' = [wErr EXCEPT ![g] = ErrExec]
        /\ UNCHANGED db

\* the server refuses DROP DATABASE of a database that does not exist or
\* that a session is using
Droppable(n) ==
  /\ db[n].exists
  /\ \A h \in Tests : ~(pool[h] = "open" /\ dbName[h] = n /\ acquired[h] > 0)

\* database.go:185-188  fn of dropDB: DROP DATABASE dbName
fnDrop(g) ==
  /\ cf[g].op = "drop"
  /\ UNCHANGED dbExists
  /\ \/ /\ Droppable(cf[g].arg)
        /\ db' = [db EXCEPT ![cf[g].arg] = NoDb]
        /\ wErr' = [wErr EXCEPT ![g] = Nil]
        /\ hist' = IF cf[g].ret = "td_afterdrop"
                     THEN [hist EXCEPT !.tdDropped = @ \cup {g},
                                       !.owner[cf[g].arg] = 0]
                     ELSE [hist EXCEPT !.owner[cf[g].arg] = 0]
     \/ /\ wErr' = [wErr EXCEPT ![g] = ErrExec]
        /\ UNCHANGED << db, hist >>

\* database.go:213-223  query and fn of createDB:
\* CREATE DATABASE name [WITH TEMPLATE tmplName]
fnCreate(g) ==
  /\ cf[g].op = "create"
  /\ UNCHANGED dbExists
  /\ \/ /\ ~db[cf[g].arg].exists
        /\ Present(cf[g].arg2)
        /\ LET d == IF cf[g].arg2 = EmptyName
                      THEN NewDb(FALSE, EmptyName)
                      ELSE NewDb(db[cf[g].arg2].schema, cf[g].arg2)
           IN /\ db' = [db EXCEPT ![cf[g].arg] = d]
              /\ hist' = [hist EXCEPT !.made[g] = d, !.owner[cf[g].arg] = g]
        /\ wErr' = [wErr EXCEPT ![g] = Nil]
     \/ /\ wErr' = [wErr EXCEPT ![g] = ErrExec]
        /\ UNCHANGED << db, hist >>

\* database.go:177  err = fn(ctx, conn)
withNewConnection_Fn(g) ==
  /\ pc[g] = "wnc_fn"
  /\ fnExists(g) \/ fnSchema(g) \/ fnDrop(g) \/ fnCreate(g)
  /\ pc' = [pc EXCEPT ![g] = "wnc_close"]
  /\ UNCHANGED << cfgVars, poolVars, lockVars, lerr, ltmpl, ctRet, ctErr,
                  cloneVars, cf, conn, fxVars, tdVars, testVars >>

\* withNewConnection_Close whose close error replaces the error of fn
withNewConnection_Close_CloseErrWins(g) ==
  /\ pc[g] = "wnc_close"
  /\ conn' = [conn EXCEPT ![g] = FALSE]
  /\ \/ UNCHANGED wErr
     \/ wErr' = [wErr EXCEPT ![g] = ErrClose]
  /\ pc' = [pc EXCEPT ![g] = cf[g].ret]
  /\ UNCHANGED << cfgVars, poolVars, lockVars, db, tmplLocals, cloneVars, cf,
                  fxVars, tdVars, testVars, hist >>

\* withNewConnection_Close that closes the connection only when fn returned
\* no error
withNewConnection_Close_OnSuccess(g) ==
  /\ pc[g] = "wnc_close"
  /\ IF wErr[g] = Nil
       THEN /\ conn' = [conn EXCEPT ![g] = FALSE]
            /\ \/ UNCHANGED wErr
               \/ wErr' = [wErr EXCEPT ![g] = ErrClose]
       ELSE UNCHANGED << conn, wErr >>
  /\ pc' = [pc EXCEPT ![g] = cf[g].ret]
  /\ UNCHANGED << cfgVars, poolVars, lockVars, db, tmplLocals, cloneVars, cf,
                  fxVars, tdVars, testVars, hist >>

\* database.go:164-175, 179  the deferred conn.Close: its error is returned
\* only when fn returned none, and logged otherwise
withNewConnection_Close(g) ==
  /\ pc[g] = "wnc_close"
  /\ conn' = [conn EXCEPT ![g] = FALSE]
  /\ \/ UNCHANGED wErr
     \/ wErr' = [wErr EXCEPT ![g] = IF wErr[g] = Nil THEN ErrClose ELSE @]
  /\ pc' = [pc EXCEPT ![g] = cf[g].ret]
  /\ UNCHANGED << cfgVars, poolVars, lockVars, db, tmplLocals, cloneVars, cf,
                  fxVars, tdVars, testVars, hist >>

\* ------------------------------------------------------------- createRndDB
\* database.go:116-118  dbName from p.rnd.Int31(), then createDB(dbName, tmpl)
createRndDB_Name(g) ==
  /\ pc[g] = "rnd_name"
  /\ \E s \in Suffixes :
       /\ dbName' = [dbName EXCEPT ![g] = rndName(rtmpl[g], s)]
       /\ Call(g, EmptyName, "create", rndName(rtmpl[g], s), rtmpl[g],
               "rnd_aftercreate")
  /\ UNCHANGED << cfgVars, poolVars, lockVars, db, tmplLocals, rtmpl, pool,
                  acquired, fxVars, tdVars, testVars, hist >>

\* database.go:119-127  t.Fatal on the error of createDB; pgxpool.ParseConfig
\* and dropDB(dbName) when it fails
createRndDB_AfterCreate(g) ==
  /\ pc[g] = "rnd_aftercreate"
  /\ IF wErr[g] # Nil
       THEN /\ Fatal(g, [kind |-> "createDB", n |-> 0, db |-> dbName[g],
                         err |-> wErr[g]])
            /\ Exit(g)
            /\ Ret(g)
       ELSE /\ \/ /\ Call(g, EmptyName, "drop", dbName[g], EmptyName,
                          "rnd_fatal")
               \/ /\ pc' = [pc EXCEPT ![g] = "rnd_connect"]
                  /\ Ret(g)
            /\ UNCHANGED << result, msg, rtmpl, dbName >>
  /\ UNCHANGED << cfgVars, poolVars, lockVars, db, tmplLocals, pool,
                  acquired, fxVars, tdVars, returned, hist >>

\* createRndDB_Connect whose cleanup names the template instead of the clone
createRndDB_Connect_DropTmpl(g) ==
  /\ pc[g] = "rnd_connect"
  /\ \/ /\ Call(g, EmptyName, "drop", TmplName, EmptyName, "rnd_fatal")
        /\ UNCHANGED pool
     \/ /\ db[dbName[g]].exists
        /\ pool' = [pool EXCEPT ![g] = "open"]
        /\ pc' = [pc EXCEPT ![g] = "we_ret"]
        /\ UNCHANGED wncVars
  /\ UNCHANGED << cfgVars, poolVars, lockVars, db, tmplLocals, rtmpl, dbName,
                  acquired, fxVars, tdVars, testVars, hist >>

\* database.go:128-139  pgxpool.ConnectConfig, dropDB(dbName) when it fails
createRndDB_Connect(g) ==
  /\ pc[g] = "rnd_connect"
  /\ \/ /\ Call(g, EmptyName, "drop", dbName[g], EmptyName, "rnd_fatal")
        /\ UNCHANGED pool
     \/ /\ db[dbName[g]].exists
        /\ pool' = [pool EXCEPT ![g] = "open"]
        /\ pc' = [pc EXCEPT ![g] = "we_ret"]
        /\ UNCHANGED wncVars
  /\ UNCHANGED << cfgVars, poolVars, lockVars, db, tmplLocals, rtmpl, dbName,
                  acquired, fxVars, tdVars, testVars, hist >>

\* database.go:125-126, 135-136  t.Fatal after the best-effort dropDB
createRndDB_Fatal(g) ==
  /\ pc[g] = "rnd_fatal"
  /\ Fatal(g, [kind |-> "createRndDB", n |-> 0, db |-> dbName[g],
               err |-> Nil])
  /\ Exit(g)
  /\ Ret(g)
  /\ UNCHANGED << cfgVars, poolVars, lockVars, db, tmplLocals, pool,
                  acquired, fxVars, tdVars, returned, hist >>

\* --------------------------------------------------------------- WithEmpty
\* database.go:195-196, 49, 67  WithEmpty returns the pool and the teardown
\* closure to its caller: the test, or WithSQLs / WithFixtures
WithEmpty_Return(g) ==
  /\ pc[g] = "we_ret"
  /\ \/ /\ returned' = [returned EXCEPT ![g] = TRUE]
        /\ pc' = [pc EXCEPT ![g] = "test"]
     \/ /\ pc' = [pc EXCEPT ![g] = "fx_loop"]
        /\ UNCHANGED returned
  /\ UNCHANGED << cfgVars, poolVars, lockVars, db, tmplLocals, cloneVars,
                  wncVars, fxVars, tdVars, result, msg, hist >>

\* teardown_Stat reporting the leak with t.Errorf, which lets the closure
\* go on to pool.Close and dropDB
teardown_Stat_NoFatal(g) ==
  /\ pc[g] = "td_stat"
  /\ tdObs' = [tdObs EXCEPT ![g] = acquired[g]]
  /\ IF acquired[g] > 0
       THEN Fatal(g, [kind |-> "leak", n |-> acquired[g],
                      db |-> dbName[g], err |-> Nil])
       ELSE UNCHANGED << result, msg >>
  /\ pc' = [pc EXCEPT ![g] = "td_close"]
  /\ UNCHANGED << cfgVars, poolVars, lockVars, db, tmplLocals, cloneVars,
                  wncVars, fxVars, tdRet, tdCalls, returned, hist >>

\* teardown_Stat of a closure that remembers a successful drop and returns
\* at once when invoked again
teardown_Stat_Once(g) ==
  /\ pc[g] = "td_stat"
  /\ IF g \in hist.tdDropped
       THEN /\ pc' = [pc EXCEPT ![g] = tdRet[g]]
            /\ tdRet' = [tdRet EXCEPT ![g] = "none"]
            /\ UNCHANGED << result, msg, tdObs >>
       ELSE IF acquired[g] > 0
         THEN /\ Fatal(g, [kind |-> "leak", n |-> acquired[g],
                           db |-> dbName[g], err |-> Nil])
              /\ pc' = [pc EXCEPT ![g] =
                          IF tdRet[g] = "test" THEN "test" ELSE "done"]
              /\ tdRet' = [tdRet EXCEPT ![g] = "none"]
              /\ UNCHANGED tdObs
         ELSE /\ tdObs' = [tdObs EXCEPT ![g] = acquired[g]]
              /\ pc' = [pc EXCEPT ![g] = "td_close"]
              /\ UNCHANGED << result, msg, tdRet >>
  /\ UNCHANGED << cfgVars, poolVars, lockVars, db, tmplLocals, cloneVars,
                  wncVars, fxVars, tdCalls, returned, hist >>

\* database.go:197-203  the teardown closure: pool.Stat().AcquiredConns(),
\* t.Fatalf when connections are unreleased.  t.Fatalf ends the goroutine
\* through runtime.Goexit, which still runs the deferred calls of the test
teardown_Stat(g) ==
  /\ pc[g] = "td_stat"
  /\ IF acquired[g] > 0
       THEN /\ Fatal(g, [kind |-> "leak", n |-> acquired[g],
                         db |-> dbName[g], err |-> Nil])
            /\ pc' = [pc EXCEPT ![g] =
                        IF tdRet[g] = "test" THEN "test" ELSE "done"]
            /\ tdRet' = [tdRet EXCEPT ![g] = "none"]
            /\ UNCHANGED tdObs
       ELSE /\ tdObs' = [tdObs EXCEPT ![g] = acquired[g]]
            /\ pc' = [pc EXCEPT ![g] = "td_close"]
            /\ UNCHANGED << result, msg, tdRet >>
  /\ UNCHANGED << cfgVars, poolVars, lockVars, db, tmplLocals, cloneVars,
                  wncVars, fxVars, tdCalls, returned, hist >>

\* teardown_Close without pool.Close()
teardown_Close_NoClose(g) ==
  /\ pc[g] = "td_close"
  /\ Call(g, EmptyName, "drop", dbName[g], EmptyName, "td_afterdrop")
  /\ UNCHANGED << cfgVars, poolVars, lockVars, db, tmplLocals, cloneVars,
                  fxVars, tdVars, testVars, hist >>

\* database.go:204-205  pool.Close(); err := dropDB(dbName)
teardown_Close(g) ==
  /\ pc[g] = "td_close"
  /\ pool' = [pool EXCEPT ![g] = "closed"]
  /\ Call(g, EmptyName, "drop", dbName[g], EmptyName, "td_afterdrop")
  /\ UNCHANGED << cfgVars, poolVars, lockVars, db, tmplLocals, rtmpl, dbName,
                  acquired, fxVars, tdVars, testVars, hist >>

\* database.go:206-209  t.Errorf when dropDB failed; the closure returns
teardown_AfterDrop(g) ==
  /\ pc[g] = "td_afterdrop"
  /\ IF wErr[g] # Nil
       THEN Fatal(g, [kind |-> "drop", n |-> 0, db |-> dbName[g],
                      err |-> wErr[g]])
       ELSE UNCHANGED << result, msg >>
  /\ pc' = [pc EXCEPT ![g] = tdRet[g]]
  /\ tdRet' = [tdRet EXCEPT ![g] = "none"]
  /\ tdObs' = [tdObs EXCEPT ![g] = 0]
  /\ Ret(g)
  /\ UNCHANGED << cfgVars, poolVars, lockVars, db, tmplLocals, cloneVars,
                  fxVars, tdCalls, returned, hist >>

\* ------------------------------------------------- WithSQLs / WithFixtures
\* WithSQLs_Loop that fails the test without calling clean()
WithSQLs_Loop_NoClean(g) ==
  /\ pc[g] = "fx_loop"
  /\ \/ /\ returned' = [returned EXCEPT ![g] = TRUE]
        /\ idx' = [idx EXCEPT ![g] = 0]
        /\ execLog' = [execLog EXCEPT ![g] = << >>]
        /\ pc' = [pc EXCEPT ![g] = "test"]
     \/ /\ idx[g] < MaxStmts
        /\ execLog' = [execLog EXCEPT ![g] = Append(@, idx[g])]
        /\ \/ /\ idx' = [idx EXCEPT ![g] = @ + 1]
              /\ UNCHANGED pc
           \/ /\ pc' = [pc EXCEPT ![g] = "fx_fatal"]
              /\ UNCHANGED idx
        /\ UNCHANGED returned
  /\ UNCHANGED << cfgVars, poolVars, lockVars, db, tmplLocals, cloneVars,
                  wncVars, tdVars, result, msg, hist >>

\* database.go:52-61, 70-79  the loop over at most MaxStmts statements:
\* pool.Exec of statement i, clean() on its error, return pool, clean after
\* the last statement
WithSQLs_Loop(g) ==
  /\ pc[g] = "fx_loop"
  /\ \/ /\ returned' = [returned EXCEPT ![g] = TRUE]
        /\ idx' = [idx EXCEPT ![g] = 0]
        /\ execLog' = [execLog EXCEPT ![g] = << >>]
        /\ pc' = [pc EXCEPT ![g] = "test"]
        /\ UNCHANGED tdVars
     \/ /\ idx[g] < MaxStmts
        /\ execLog' = [execLog EXCEPT ![g] = Append(@, idx[g])]
        /\ \/ /\ idx' = [idx EXCEPT ![g] = @ + 1]
              /\ UNCHANGED << pc, tdVars >>
           \/ /\ tdRet' = [tdRet EXCEPT ![g] = "fx_fatal"]
              /\ tdCalls' = [tdCalls EXCEPT ![g] = @ + 1]
              /\ pc' = [pc EXCEPT ![g] = "td_stat"]
              /\ UNCHANGED << idx, tdObs >>
        /\ UNCHANGED returned
  /\ UNCHANGED << cfgVars, poolVars, lockVars, db, tmplLocals, cloneVars,
                  wncVars, result, msg, hist >>

\* database.go:55-58, 73-76  t.Fatalf("can't load fixture at idx %v", i)
WithSQLs_Fatal(g) ==
  /\ pc[g] = "fx_fatal"
  /\ Fatal(g, [kind |-> "fixture", n |-> idx[g], db |-> dbName[g],
               err |-> ErrExec])
  /\ Exit(g)
  /\ idx' = [idx EXCEPT ![g] = 0]
  /\ execLog' = [execLog EXCEPT ![g] = << >>]
  /\ UNCHANGED << cfgVars, poolVars, lockVars, db, tmplLocals, pool,
                  acquired, wncVars, tdVars, returned, hist >>

\* ---------------------------------------------------------------- the test
\* the test borrows a connection from the pool it was handed
Acquire(g) ==
  /\ pc[g] = "test"
  /\ pool[g] = "open"
  /\ acquired[g] < MaxConns
  /\ acquired' = [acquired EXCEPT ![g] = @ + 1]
  /\ UNCHANGED << cfgVars, poolVars, lockVars, db, pc, tmplLocals, rtmpl,
                  dbName, pool, wncVars, fxVars, tdVars, testVars, hist >>

\* the test releases a borrowed connection
Release(g) ==
  /\ pc[g] = "test"
  /\ acquired[g] > 0
  /\ acquired' = [acquired EXCEPT ![g] = @ - 1]
  /\ UNCHANGED << cfgVars, poolVars, lockVars, db, pc, tmplLocals, rtmpl,
                  dbName, pool, wncVars, fxVars, tdVars, testVars, hist >>

\* the test (or one of its deferred calls, which still run after t.Fatalf)
\* invokes the teardown closure
Teardown(g) ==
  /\ pc[g] = "test"
  /\ tdCalls[g] < MaxTeardowns
  /\ tdCalls' = [tdCalls EXCEPT ![g] = @ + 1]
  /\ tdRet' = [tdRet EXCEPT ![g] = "test"]
  /\ pc' = [pc EXCEPT ![g] = "td_stat"]
  /\ UNCHANGED << cfgVars, poolVars, lockVars, db, tmplLocals, cloneVars,
                  wncVars, fxVars, tdObs, testVars, hist >>

\* ------------------------------------------------- accesses to Pgpool fields
\* database.go:101-105  g holds p.m exclusively or shared
HoldsLock(g) == mWriter = g \/ g \in mReaders

\* database.go:102-103  the Pgpool fields the next step of g writes
Writes(g) ==
  IF pc[g] = "gt_seed" THEN {"rnd"}
  ELSE IF pc[g] = "gt_store" THEN {"tmpl", "err"}
  ELSE {}

\* database.go:90-91, 102-104, 111, 116  the Pgpool fields the next step of
\* g reads or updates: p.err and p.tmpl in the fast path, the writes and
\* err = p.err under Lock, return p.tmpl, and p.rnd.Int31(), which advances
\* the generator
Accesses(g) ==
  IF pc[g] = "gt_read" THEN {"tmpl", "err"}
  ELSE IF pc[g] = "gt_after" /\ lerr[g] = Nil THEN {"tmpl"}
  ELSE IF pc[g] = "rnd_name" THEN {"rnd"}
  ELSE Writes(g)

Next ==
  \E g \in Tests :
    \/ getTmpl_Skip(g)
    \/ getTmpl_RLock(g)
    \/ getTmpl_Read(g)
    \/ getTmpl_Check(g)
    \/ getTmpl_Lock(g)
    \/ getTmpl_Seed(g)
    \/ createTemplateDB_Config(g)
    \/ createTemplateDB_After1(g)
    \/ createTemplateDB_After2(g)
    \/ createTemplateDB_AfterDrop(g)
    \/ getTmpl_Store(g)
    \/ getTmpl_After(g)
    \/ withNewConnection_Connect(g)
    \/ withNewConnection_Fn(g)
    \/ withNewConnection_Close(g)
    \/ createRndDB_Name(g)
    \/ createRndDB_AfterCreate(g)
    \/ createRndDB_Connect(g)
    \/ createRndDB_Fatal(g)
    \/ WithEmpty_Return(g)
    \/ teardown_Stat(g)
    \/ teardown_Close(g)
    \/ teardown_AfterDrop(g)
    \/ WithSQLs_Loop(g)
    \/ WithSQLs_Fatal(g)
    \/ Acquire(g)
    \/ Release(g)
    \/ Teardown(g)

Spec == Init /\ [][Next]_vars

\* ------------------------------------------------------------- scheduling
\* database.go:82-112, 227-283  g is inside getTmpl: in its own statements,
\* in createTemplateDB, or in a withNewConnection that createTemplateDB called
InGetTmpl(g) ==
  \/ pc[g] \in {"gt_rlock", "gt_read", "gt_check", "gt_lock", "gt_seed",
                "ct_cfg", "ct_after1", "ct_after2", "ct_afterdrop",
                "gt_store", "gt_after"}
  \/ /\ pc[g] \in {"wnc_connect", "wnc_fn", "wnc_close"}
     /\ cf[g].ret \in {"ct_after1", "ct_after2", "ct_afterdrop"}

\* database.go:82-112, 142-180, 227-283  the steps of g in getTmpl,
\* createTemplateDB and withNewConnection
getTmpl_Step(g) ==
  \/ getTmpl_RLock(g)
  \/ getTmpl_Read(g)
  \/ getTmpl_Check(g)
  \/ getTmpl_Lock(g)
  \/ getTmpl_Seed(g)
  \/ createTemplateDB_Config(g)
  \/ createTemplateDB_After1(g)
  \/ createTemplateDB_After2(g)
  \/ createTemplateDB_AfterDrop(g)
  \/ getTmpl_Store(g)
  \/ getTmpl_After(g)
  \/ withNewConnection_Connect(g)
  \/ withNewConnection_Fn(g)
  \/ withNewConnection_Close(g)

\* database.go:21, 89-105, 152-153  the Go scheduler runs every runnable
\* goroutine, sync.RWMutex hands the lock to a waiter once it is free, and
\* every database operation ends within defaultTimeout
SpecFair == Spec /\ \A g \in Tests : WF_vars(getTmpl_Step(g))

\* ------------------------------------------------------ template identity
\* createTemplateDB called on pools with any BaseName and any schema content
InitId ==
  /\ InitPool
  /\ BaseName \in BaseNames
  /\ schemaSql \in [Runs -> Contents]
  /\ ctName = [r \in Runs |-> EmptyName]

\* database.go:231-241  run r of createTemplateDB computes its template name
createTemplateDB_Name(r) ==
  /\ ctName[r] = EmptyName
  /\ ctName' = [ctName EXCEPT ![r] = templateName(BaseName, schemaSql[r])]
  /\ UNCHANGED << Skip, SchemaFile, BaseName, schemaSql, poolVars, lockVars,
                  db, pc, tmplLocals, cloneVars, wncVars, fxVars, tdVars,
                  testVars, hist >>

NextId == \E r \in Runs : createTemplateDB_Name(r)

SpecId == InitId /\ [][NextId]_vars

TypeOK ==
  /\ tmpl \in {EmptyName, TmplName}
  /\ mWriter \in {0} \cup Tests
  /\ mReaders \subseteq Tests
  /\ \A g \in Tests : acquired[g] \in 0..MaxConns

\* ------------------------------------------------------------------ claims
\* the goroutine g takes a step
Steps(g) == pc'[g] # pc[g]

\* the teardown closure of g is running its dropDB
InTeardownDrop(g) == cf[g].ret = "td_afterdrop"

\* C1: N concurrent first callers of getTmpl on a fresh pool run exactly one
\* template-creation sequence: createTemplateDB is called once and one
\* existence check is issued, whatever the interleaving.
C1_OneTemplateCreation ==
  /\ hist.nCreateTemplateDB <= 1
  /\ hist.nExists <= 1

\* C2: a cached template error is sticky: once p.err is set, it keeps its
\* value, p.tmpl stays empty, and no getTmpl call returns a template name.
C2_StickyFailure ==
  [][err # Nil =>
       /\ err' = err
       /\ tmpl' = EmptyName
       /\ hist'.gotTmpl = hist.gotTmpl]_vars

\* C3: a cached success is stable: once a getTmpl call has returned the
\* template name, p.tmpl keeps that name, p.err stays nil, and no further
\* createTemplateDB is called.
C3_StableSuccess ==
  [][(hist.gotTmpl \cap {TmplName} # {}) =>
       /\ tmpl' = TmplName
       /\ err' = Nil]_vars

\* C4: a teardown that observes k > 0 acquired connections fails the test
\* with an error naming k and the clone, leaves the pool open and the
\* server untouched, and returns; the closure never reaches pool.Close or
\* dropDB with a nonzero observed count.
C4_LeakKeepsClone ==
  /\ [](\A g \in Tests :
          (pc[g] = "td_close" \/ InTeardownDrop(g)) =>
             (tdObs[g] = 0 /\ acquired[g] = 0))
  /\ [][\A g \in Tests :
          (pc[g] = "td_stat" /\ acquired[g] > 0 /\ Steps(g)) =>
             /\ result'[g] = "failed"
             /\ msg'[g] = [kind |-> "leak", n |-> acquired[g],
                           db |-> dbName[g], err |-> Nil]
             /\ pool'[g] = pool[g]
             /\ db' = db
             /\ pc'[g] \in {"test", "done"}]_vars

\* a test holds a borrowed connection, its teardown has been refused, and
\* its clone is still there behind an open pool
C4_Witness ==
  \E g \in Tests :
    /\ pc[g] = "test"
    /\ msg[g].kind = "leak" /\ msg[g].n > 0
    /\ acquired[g] > 0
    /\ pool[g] = "open"
    /\ db[dbName[g]].exists

\* C5: a teardown that observes zero acquired connections closes the pool,
\* then calls dropDB for its clone; when that DROP succeeds the clone is
\* gone, and a dropDB error is reported.  Also after an earlier refusal.
C5_TeardownDrops ==
  /\ [](\A g \in Tests :
          InTeardownDrop(g) =>
             /\ pool[g] = "closed"
             /\ cf[g].op = "drop"
             /\ cf[g].arg = dbName[g])
  /\ [][\A g \in Tests :
          /\ (pc[g] = "td_stat" /\ acquired[g] = 0 /\ Steps(g)) =>
                pc'[g] = "td_close"
          /\ (pc[g] = "td_close" /\ Steps(g)) =>
                /\ pool'[g] = "closed"
                /\ pc'[g] = "wnc_connect"
                /\ cf'[g].op = "drop" /\ cf'[g].arg = dbName[g]
          /\ (pc[g] = "wnc_fn" /\ InTeardownDrop(g) /\ Steps(g)
                /\ wErr'[g] = Nil) =>
                ~db'[dbName[g]].exists
          /\ (pc[g] = "td_afterdrop" /\ Steps(g)) =>
                /\ pc'[g] = tdRet[g]
                /\ (wErr[g] # Nil) =>
                     (result'[g] = "failed" /\ msg'[g].kind = "drop")
                /\ (wErr[g] = Nil) =>
                     (result'[g] = result[g] /\ msg'[g] = msg[g])]_vars

\* a teardown refused for a leak was followed, after the release, by a
\* teardown that dropped the clone
C5_Witness ==
  \E g \in Tests :
    /\ pc[g] = "test"
    /\ msg[g].kind = "leak"
    /\ acquired[g] = 0
    /\ g \in hist.tdDropped
    /\ pool[g] = "closed"
    /\ ~db[dbName[g]].exists

\* C6 (as claimed): after a teardown has dropped the clone, a further
\* invocation of the closure issues no DROP DATABASE and reports no error.
C6_IdempotentTeardown ==
  \A g \in Tests :
    g \in hist.tdDropped =>
      ~(pc[g] = "wnc_fn" /\ InTeardownDrop(g))

\* C6 (amended): after a teardown has dropped the clone, a further
\* invocation runs the whole closure again: it goes on to pool.Close and
\* dropDB of the same name, the DROP fails when no database of that name
\* exists, and the dropDB error fails the test.
C6_TeardownRepeatsDrop ==
  [][\A g \in hist.tdDropped :
       /\ (pc[g] = "td_stat" /\ Steps(g)) => pc'[g] = "td_close"
       /\ (pc[g] = "td_close" /\ Steps(g)) =>
             /\ pc'[g] = "wnc_connect"
             /\ cf'[g].op = "drop" /\ cf'[g].arg = dbName[g]
             /\ cf'[g].ret = "td_afterdrop"
       /\ (pc[g] = "wnc_fn" /\ InTeardownDrop(g) /\ Steps(g)
             /\ ~db[dbName[g]].exists) =>
             wErr'[g] # Nil
       /\ (pc[g] = "td_afterdrop" /\ Steps(g) /\ wErr[g] # Nil) =>
             /\ result'[g] = "failed"
             /\ msg'[g] = [kind |-> "drop", n |-> 0, db |-> dbName[g],
                           err |-> wErr[g]]]_vars

\* the second DROP of an already dropped clone has just failed
C6_Witness ==
  \E g \in hist.tdDropped :
    /\ pc[g] = "td_afterdrop"
    /\ tdCalls[g] >= 2
    /\ wErr[g] = ErrExec
    /\ ~db[dbName[g]].exists

\* the statements 0..i, each once and in order
Upto(i) == [k \in 1..(i + 1) |-> k - 1]

\* C7 (as claimed): when statement i fails, statements 0..i have been
\* executed in order, the teardown closure has run, the clone no longer
\* exists, and no handle is returned.
C7_FixtureFailureDropsClone ==
  \A g \in Tests :
    pc[g] = "fx_fatal" =>
      /\ execLog[g] = Upto(idx[g])
      /\ pool[g] = "closed"
      /\ ~returned[g]
      /\ ~db[dbName[g]].exists

\* C7 (amended): when statement i fails, statements 0..i have been executed
\* once each and in order and none after i, the teardown closure has run
\* once (pool closed, dropDB called), the test fails reporting index i, no
\* handle is returned; the clone is gone when the DROP of that teardown
\* succeeded.
C7_FixtureFailureTearsDown ==
  /\ [](\A g \in Tests :
          pc[g] = "fx_fatal" =>
             /\ execLog[g] = Upto(idx[g])
             /\ pool[g] = "closed"
             /\ tdCalls[g] = 1
             /\ ~returned[g])
  /\ [][\A g \in Tests :
          /\ (pc[g] = "fx_loop" /\ Steps(g) /\ pc'[g] # "test") =>
                /\ pc'[g] = "td_stat"
                /\ tdRet'[g] = "fx_fatal"
                /\ idx'[g] = idx[g]
                /\ execLog'[g] = Append(execLog[g], idx[g])
          /\ (tdRet[g] = "fx_fatal" /\ pc[g] = "td_stat" /\ Steps(g)) =>
                pc'[g] = "td_close"
          /\ (tdRet[g] = "fx_fatal" /\ pc[g] = "wnc_fn" /\ Steps(g)
                /\ wErr'[g] = Nil) =>
                ~db'[dbName[g]].exists
          /\ (pc[g] = "fx_fatal" /\ Steps(g)) =>
                /\ pc'[g] = "done"
                /\ result'[g] = "failed"
                /\ msg'[g].kind = "fixture" /\ msg'[g].n = idx[g]
                /\ ~returned'[g]
          /\ (pc[g] = "done") =>
                (pc'[g] = "done" /\ returned'[g] = returned[g])]_vars

\* f0 succeeded, f1 failed, the teardown has dropped the clone
C7_Witness ==
  \E g \in Tests :
    /\ pc[g] = "fx_fatal"
    /\ idx[g] = 1
    /\ execLog[g] = << 0, 1 >>
    /\ g \in hist.tdDropped
    /\ ~db[dbName[g]].exists

\* C8: every pool handle is bound to a clone that was created WITH TEMPLATE
\* a non-empty template name whose database had the schema applied.
C8_CloneOfSchemaTemplate ==
  \A g \in Tests :
    pool[g] # "none" =>
      /\ hist.made[g].from # EmptyName
      /\ hist.made[g].schema

\* C9: a createTemplateDB call that created the template and returns an
\* error has called dropDB for the template before returning.
C9_FailedTemplateDropped ==
  \A g \in Tests :
    (pc[g] = "gt_store" /\ ctRet[g][2] # Nil) => hist.ct # "created"

\* C10: createRndDB fails the test after its CREATE DATABASE succeeded only
\* after a dropDB of the clone.
C10_FailedCloneDropped ==
  [][\A g \in Tests :
       (pc[g] = "rnd_aftercreate" /\ pc'[g] = "done") =>
          ~hist.made[g].exists]_vars

\* C11 (as claimed): when the existence check of createTemplateDB finds the
\* template, the call issues no CREATE DATABASE, runs no schema script,
\* issues no DROP and returns the template name; the template is created and
\* the schema script run only in a call whose check returned false.
C11_ReuseReturnsName ==
  /\ [](\A g \in Tests :
          /\ dbExists[g] =>
               /\ hist.ct = "none"
               /\ cf[g].op \in {"exists", "none"}
               /\ pc[g] = "gt_store" => ctRet[g] = << TmplName, Nil >>
          /\ cf[g].op = "schema" => (~dbExists[g] /\ hist.ct = "created"))
  /\ [][\A g \in Tests :
          /\ (~dbExists[g] /\ dbExists'[g]) => db' = db
          /\ (dbExists[g] /\ Steps(g)) => db' = db]_vars

\* C11 (amended): as claimed, except that the call returns the template
\* name or, when closing the connection of the check failed, the close error
\* and no name.
C11_ReuseCreatesNothing ==
  /\ [](\A g \in Tests :
          /\ dbExists[g] =>
               /\ hist.ct = "none"
               /\ cf[g].op \in {"exists", "none"}
               /\ pc[g] = "gt_store" =>
                     ctRet[g] \in {<< TmplName, Nil >>, << EmptyName, ErrClose >>}
          /\ cf[g].op = "schema" => (~dbExists[g] /\ hist.ct = "created"))
  /\ [][\A g \in Tests :
          /\ (~dbExists[g] /\ dbExists'[g]) => db' = db
          /\ (dbExists[g] /\ Steps(g)) => db' = db
          /\ (pc[g] = "ct_after1" /\ Steps(g) /\ dbExists[g]
                /\ wErr[g] = Nil) =>
                (pc'[g] = "gt_store" /\ ctRet'[g] = << TmplName, Nil >>)]_vars

\* the check found the template and the close of its connection failed
C11_Witness ==
  \E g \in Tests :
    /\ pc[g] = "gt_store"
    /\ dbExists[g]
    /\ ctRet[g] = << EmptyName, ErrClose >>
    /\ db[TmplName].exists

\* the dropDB calls of clone creation and of teardown name the clone that
\* the same acquisition created
DropsOwnClone(g) ==
  (cf[g].op = "drop" /\ cf[g].ret \in {"rnd_fatal", "td_afterdrop"}) =>
     /\ cf[g].arg = dbName[g]
     /\ cf[g].arg # TmplName
     /\ hist.made[g].exists

Live(h) == h \in Tests /\ pc[h] \notin {"idle", "done"} /\ pool[h] # "closed"

\* C13: no two open pool handles are bound to the same clone, and no step
\* of one test drops a clone that a different, live acquisition created.
C13_CloneExclusive ==
  /\ [](\A g, h \in Tests :
          (g # h /\ pool[g] = "open" /\ pool[h] = "open") =>
             dbName[g] # dbName[h])
  /\ [][\A g \in Tests : \A n \in DbNames :
          (Steps(g) /\ db[n].exists /\ ~db'[n].exists) =>
             (hist.owner[n] \in {0, g} \/ ~Live(hist.owner[n]))]_vars

\* C14: no goroutine reads or updates p.tmpl, p.err or p.rnd without
\* holding p.m while another goroutine, holding p.m exclusively, is writing
\* that field.
C14_SharedStateUnderLock ==
  \A g, h \in Tests :
    (g # h /\ mWriter = g /\ Writes(g) \cap Accesses(h) # {}) => HoldsLock(h)

\* C15: an administrative connection is open only between the successful
\* connect of withNewConnection and its deferred close; the close runs once
\* on every return path, whatever fn returned, so no connection is open at
\* any position outside withNewConnection.
C15_AdminConnClosedOnce ==
  /\ [](\A g \in Tests : conn[g] <=> pc[g] \in {"wnc_fn", "wnc_close"})
  /\ [][\A g \in Tests :
          /\ (~conn[g] /\ conn'[g]) =>
                (pc[g] = "wnc_connect" /\ pc'[g] = "wnc_fn")
          /\ (pc[g] = "wnc_fn" /\ Steps(g)) =>
                (conn'[g] /\ pc'[g] = "wnc_close")
          /\ (pc[g] = "wnc_close" /\ Steps(g)) =>
                (conn[g] /\ ~conn'[g] /\ pc'[g] = cf[g].ret)
          /\ (conn[g] /\ ~conn'[g]) => pc[g] = "wnc_close"]_vars

\* withNewConnection has just returned the error of fn, its connection
\* closed
C15_Witness ==
  \E g \in Tests :
    /\ cf[g].op # "none"
    /\ pc[g] = cf[g].ret
    /\ wErr[g] = ErrExec
    /\ ~conn[g]

C19_ErrorPrecedence ==
  [][\A g \in Tests :
       /\ (pc[g] = "wnc_fn" /\ Steps(g)) => wErr'[g] \in {Nil, ErrExec}
       /\ (pc[g] = "wnc_close" /\ Steps(g)) =>
             /\ wErr[g] # Nil => wErr'[g] = wErr[g]
             /\ wErr[g] = Nil => wErr'[g] \in {Nil, ErrClose}
             /\ db' = db
             /\ pc'[g] = cf[g].ret /\ cf'[g] = cf[g]]_vars

\* createDB has returned the close error and the clone exists
C19_Witness ==
  \E g \in Tests :
    /\ pc[g] = "rnd_aftercreate"
    /\ wErr[g] = ErrClose
    /\ hist.owner[dbName[g]] = g
    /\ db[dbName[g]].exists

\* C20: p.tmpl and p.err are both empty, or a name with a nil error, or no
\* name with an error; never a name together with an error.  The same holds
\* of every pair createTemplateDB returns, which is never empty.
C20_PoolStateShapes ==
  /\ \/ tmpl = EmptyName /\ err = Nil
     \/ tmpl = TmplName /\ err = Nil
     \/ tmpl = EmptyName /\ err # Nil
  /\ \A g \in Tests :
       pc[g] = "gt_store" =>
          \/ ctRet[g][1] = TmplName /\ ctRet[g][2] = Nil
          \/ ctRet[g][1] = EmptyName /\ ctRet[g][2] # Nil

\* the pool holds an error and no name after it has held and handed out the
\* template name
C20_Witness ==
  /\ tmpl = EmptyName
  /\ err # Nil
  /\ hist.gotTmpl = {TmplName}

\* C21: under fair scheduling every getTmpl call in progress eventually
\* returns to createRndDB or fails its test; p.m is held shared exactly
\* between RLock and RUnlock and exclusively exactly between Lock and
\* Unlock by the goroutine that took it, and released by no other; p.m is
\* free whenever no getTmpl call is in progress.
C21_GetTmplTerminates ==
  /\ \A g \in Tests :
        InGetTmpl(g) ~>
          (pc[g] = "rnd_name" \/ (pc[g] = "done" /\ result[g] = "failed"))
  /\ [](\A g \in Tests :
          /\ g \in mReaders <=> pc[g] = "gt_read"
          /\ mWriter = g <=>
                (InGetTmpl(g) /\ pc[g] \notin {"gt_rlock", "gt_read",
                                                "gt_check", "gt_lock",
                                                "gt_after"}))
  /\ []((\A g \in Tests : ~InGetTmpl(g)) => (mWriter = 0 /\ mReaders = {}))
  /\ [][\A g \in Tests :
          /\ (mWriter # g /\ mWriter' = g) =>
                (pc[g] = "gt_lock" /\ mWriter = 0 /\ mReaders = {})
          /\ (mWriter = g /\ mWriter' # g) =>
                (pc[g] = "gt_store" /\ mWriter' = 0)
          /\ (g \notin mReaders /\ g \in mReaders') =>
                (pc[g] = "gt_rlock" /\ mWriter = 0)]_vars

\* both calls took the exclusive lock in turn; one failed its test with the
\* error of createTemplateDB, the other returned; the lock is free
C21_Witness ==
  \E g, h \in Tests :
    /\ g # h
    /\ pc[g] = "done" /\ result[g] = "failed" /\ msg[g].kind = "tmpl"
    /\ pc[h] = "rnd_name"
    /\ hist.nCreateTemplateDB = 2
    /\ mWriter = 0 /\ mReaders = {}

====
